---------------------------- MODULE Spec2Model ----------------------------
(***************************************************************************)
(* Model of log_analyze/log_analyzer.py: the pipeline                      *)
(*   find_latest_log -> report_is_exist -> parse_log /                     *)
(*   aggregate_parse_values -> calculate_report_metrics -> generate_report *)
(* driven by main.                                                         *)
(*                                                                         *)
(* Representation.                                                         *)
(*  - A directory entry is a record [stem, token, suffix]: the text before *)
(*    the first digit run, the digit run (a sequence of digits 0..9) and   *)
(*    the rest of the name.                                                *)
(*  - A calendar date is a triple <<year, month, day>>.                    *)
(*  - A log line is a record [method, url, proto, time]; time is the       *)
(*    request time in milliseconds (the float field "0.390" is 390), or    *)
(*    NoTime when the line carries no such field.                          *)
(*  - Percentages rounded to 3 decimals are integers in thousandths of a   *)
(*    percent (16.667 is 16667).                                           *)
(*  - Quotients (time_avg, time_med) are records [num, den].               *)
(* Arithmetic on times is exact; the rounding error of binary floating     *)
(* point is not modelled.                                                  *)
(***************************************************************************)
EXTENDS Integers, Sequences, FiniteSets, TLC

\* Bounds of the model.
MaxEntries == 3    \* directory entries in a listing
MaxLines == 3      \* lines in a log file
MaxRuns == 2       \* invocations of main in sequence

VARIABLES
    dirExists,          \* os.path.exists(log_dir)
    listing,            \* os.listdir(log_dir), in the order the OS returns it
    content,            \* the lines of the log file that is opened
    config_file,        \* [REPORT_SIZE, MAX_DROP]
    reports,            \* REPORT_DIR: set of [name, body] files
    pc,                 \* stage of the current run of main
    run,                \* number of the current run
    last_log_tuple,     \* main: result of find_latest_log
    err,                \* exception that ended the run, or NoErr
    gen_summary_lines,  \* parse_log: summary_lines
    gen_parsed_lines,   \* parse_log: parsed_lines
    summary_lines,      \* aggregate_parse_values: summary_lines
    parsed_lines,       \* aggregate_parse_values: parsed_lines
    urls,               \* aggregate_parse_values: urls (insertion ordered)
    requests_time,      \* aggregate_parse_values: requests_time
    dropped,            \* aggregate_parse_values: dropped
    table,              \* result of calculate_report_metrics
    opened,             \* this run opened the log file
    wrote,              \* this run opened the report path for writing
    reports0,           \* REPORT_DIR as it was when this run started
    prev                \* summary of the previous run

vars == <<dirExists, listing, content, config_file, reports, pc, run,
          last_log_tuple, err, gen_summary_lines, gen_parsed_lines,
          summary_lines, parsed_lines, urls, requests_time, dropped, table,
          opened, wrote, reports0, prev>>

--------------------------------------------------------------------------
\* Generic helpers.

Range(s) == {s[i] : i \in 1..Len(s)}

Min(a, b) == IF a < b THEN a ELSE b

RECURSIVE SumSeq(_)
\* sum(value)
SumSeq(s) == IF s = <<>> THEN 0 ELSE Head(s) + SumSeq(Tail(s))

RECURSIVE MaxSeq(_)
\* max(value), for a non-empty sequence
MaxSeq(s) ==
    IF Len(s) = 1 THEN s[1]
    ELSE LET m == MaxSeq(Tail(s)) IN IF Head(s) >= m THEN Head(s) ELSE m

\* All sequences over S of length at most n.
SeqsUpTo(S, n) == UNION {[1..k -> S] : k \in 0..n}

\* All sequences over S of length at most n without repeated elements.
DistinctSeqsUpTo(S, n) ==
    {s \in SeqsUpTo(S, n) : \A i, j \in 1..Len(s) : i # j => s[i] # s[j]}

\* round(num / den * 100, 3), in thousandths: the integer nearest to
\* num * 100000 / den, a tie going to the even neighbour.
Round3Percent(num, den) ==
    LET n == num * 100000
        q == n \div den
        r == n % den
    IN  IF 2 * r < den THEN q
        ELSE IF 2 * r > den THEN q + 1
        ELSE IF q % 2 = 0 THEN q ELSE q + 1

--------------------------------------------------------------------------
\* Dates: datetime.date and datetime.strptime(..., '%Y%m%d').

\* datetime.date.min
DateMin == <<1, 1, 1>>

\* date > date
DateGT(a, b) ==
    \/ a[1] > b[1]
    \/ a[1] = b[1] /\ a[2] > b[2]
    \/ a[1] = b[1] /\ a[2] = b[2] /\ a[3] > b[3]

IsLeap(y) == (y % 4 = 0 /\ y % 100 # 0) \/ y % 400 = 0

DaysInMonth(y, m) ==
    IF m = 2 THEN (IF IsLeap(y) THEN 29 ELSE 28)
    ELSE IF m \in {4, 6, 9, 11} THEN 30 ELSE 31

\* The ways the directive %m can match at the head of digit sequence t, in
\* the order the regular expression 1[0-2]|0[1-9]|[1-9] tries them: each is
\* <<value, digits consumed>>.
MonthMatches(t) ==
    (IF Len(t) >= 2 /\ t[1] = 1 /\ t[2] \in 0..2 THEN <<<<10 + t[2], 2>>>> ELSE <<>>)
    \o (IF Len(t) >= 2 /\ t[1] = 0 /\ t[2] \in 1..9 THEN <<<<t[2], 2>>>> ELSE <<>>)
    \o (IF Len(t) >= 1 /\ t[1] \in 1..9 THEN <<<<t[1], 1>>>> ELSE <<>>)

\* The same for %d: 3[0-1]|[1-2]\d|0[1-9]|[1-9] (the alternative with a
\* leading blank cannot match a digit sequence).
DayMatches(t) ==
    (IF Len(t) >= 2 /\ t[1] = 3 /\ t[2] \in 0..1 THEN <<<<30 + t[2], 2>>>> ELSE <<>>)
    \o (IF Len(t) >= 2 /\ t[1] \in 1..2 THEN <<<<10 * t[1] + t[2], 2>>>> ELSE <<>>)
    \o (IF Len(t) >= 2 /\ t[1] = 0 /\ t[2] \in 1..9 THEN <<<<t[2], 2>>>> ELSE <<>>)
    \o (IF Len(t) >= 1 /\ t[1] \in 1..9 THEN <<<<t[1], 1>>>> ELSE <<>>)

Drop(t, n) == SubSeq(t, n + 1, Len(t))

\* datetime.datetime.strptime(token, '%Y%m%d').date(): [ok, date]. ok is
\* FALSE where strptime raises ValueError: the format does not match, data
\* remains unconverted after the first match, or the fields are no calendar
\* date (year 0, day past the end of the month).
StrpTime(token) ==
    IF Len(token) < 4 THEN [ok |-> FALSE, date |-> DateMin]
    ELSE
      LET y    == 1000 * token[1] + 100 * token[2] + 10 * token[3] + token[4]
          rest == Drop(token, 4)
          ms   == MonthMatches(rest)
          \* the first month alternative after which a day alternative matches
          good == {i \in 1..Len(ms) : DayMatches(Drop(rest, ms[i][2])) # <<>>}
      IN  IF good = {} THEN [ok |-> FALSE, date |-> DateMin]
          ELSE
            LET i    == CHOOSE k \in good : \A j \in good : k <= j
                m    == ms[i][1]
                r2   == Drop(rest, ms[i][2])
                dm   == DayMatches(r2)[1]
                d    == dm[1]
                left == Len(r2) - dm[2]
            IN  IF left > 0 \/ y < 1 \/ d > DaysInMonth(y, m)
                THEN [ok |-> FALSE, date |-> DateMin]
                ELSE [ok |-> TRUE, date |-> <<y, m, d>>]

--------------------------------------------------------------------------
\* find_latest_log.

LogStem == "nginx-access-ui.log-"

\* latest_file = ''
NoFile == [stem |-> "", token |-> <<>>, suffix |-> ""]

\* LogFile(name, date), and the None that find_latest_log returns otherwise
NoLog == [name |-> NoFile, date |-> DateMin]

\* re.search(regex, i) for 'nginx-access-ui.log-(?P<date>\d+).*(?:gz|$)': the
\* stem followed by at least one digit; '.*(?:gz|$)' matches any rest.
RegexSearch(i) == i.stem = LogStem /\ Len(i.token) >= 1

RECURSIVE ScanDir(_, _, _)
\* The loop over os.listdir(log_dir): [raised, latest_date, latest_file].
ScanDir(entries, latest_date, latest_file) ==
    IF entries = <<>>
    THEN [raised |-> FALSE, latest_date |-> latest_date, latest_file |-> latest_file]
    ELSE
      LET i == Head(entries) IN
      IF RegexSearch(i)
      THEN LET p == StrpTime(i.token) IN
           IF ~p.ok
           THEN [raised |-> TRUE, latest_date |-> latest_date, latest_file |-> latest_file]
           ELSE IF DateGT(p.date, latest_date)
                THEN ScanDir(Tail(entries), p.date, i)
                ELSE ScanDir(Tail(entries), latest_date, latest_file)
      ELSE ScanDir(Tail(entries), latest_date, latest_file)

\* find_latest_log(config_file): [raised, log]; log = NoLog is the None result.
find_latest_log(exists, entries) ==
    IF exists
    THEN LET s == ScanDir(entries, DateMin, NoFile) IN
         IF s.raised THEN [raised |-> TRUE, log |-> NoLog]
         ELSE IF DateGT(s.latest_date, DateMin)
              THEN [raised |-> FALSE,
                    log |-> [name |-> s.latest_file, date |-> s.latest_date]]
              ELSE [raised |-> FALSE, log |-> NoLog]
    ELSE [raised |-> FALSE, log |-> NoLog]

--------------------------------------------------------------------------
\* parse_log and aggregate_parse_values.

Methods == {"GET", "POST", "PUT", "HEAD"}

Protocols == {"HTTP/1.0", "HTTP/1.1"}

\* A line without a ' \d+\.\d+' field.
NoTime == -1

\* re.search(line_format, line): a quoted method of Methods, a url, the
\* http/1.[0-1] marker and, later on the line, a decimal number.
LineMatch(line) ==
    /\ line.method \in Methods
    /\ line.proto \in Protocols
    /\ line.time # NoTime

\* urls[url].append(request_time), or urls[url] = [request_time] on KeyError.
\* urls is a sequence of [url, times] in insertion order, as a dict iterates.
AddTime(d, url, request_time) ==
    IF \E i \in 1..Len(d) : d[i].url = url
    THEN [i \in 1..Len(d) |->
            IF d[i].url = url
            THEN [d[i] EXCEPT !.times = Append(@, request_time)]
            ELSE d[i]]
    ELSE Append(d, [url |-> url, times |-> <<request_time>>])

\* Variant of GateRaises in which the error is logged and not raised.
GateNeverRaises(d, max_drop) == FALSE

\* dropped > max_drop, with dropped in thousandths of a percent and max_drop
\* in percent.
GateRaises(d, max_drop) == d > max_drop * 1000

--------------------------------------------------------------------------
\* calculate_report_metrics.

RECURSIVE InsertAsc(_, _)
InsertAsc(s, x) ==
    IF s = <<>> THEN <<x>>
    ELSE IF x < Head(s) THEN <<x>> \o s
    ELSE <<Head(s)>> \o InsertAsc(Tail(s), x)

RECURSIVE SortAsc(_)
SortAsc(s) == IF s = <<>> THEN <<>> ELSE InsertAsc(SortAsc(Tail(s)), Head(s))

\* statistics.median(value): the middle value, or the mean of the two middle
\* values, as a quotient.
Median(value) ==
    LET s == SortAsc(value)
        n == Len(s)
    IN  IF n % 2 = 1 THEN [num |-> s[(n + 1) \div 2], den |-> 1]
        ELSE [num |-> s[n \div 2] + s[n \div 2 + 1], den |-> 2]

\* Order and equality of quotients with positive denominators.
QuotGT(a, b) == a.num * b.den > b.num * a.den

QuotEQ(a, b) == a.num * b.den = b.num * a.den

\* The body of the loop over urls.items(): the metrics of one url.
Metrics(key, value, total_lines, total_time) ==
    [url        |-> key,
     count      |-> Len(value),
     time_sum   |-> SumSeq(value),
     time_avg   |-> [num |-> SumSeq(value), den |-> Len(value)],
     time_max   |-> MaxSeq(value),
     time_med   |-> Median(value),
     count_perc |-> Round3Percent(Len(value), total_lines),
     time_perc  |-> Round3Percent(SumSeq(value), total_time)]

RECURSIVE InsertDesc(_, _)
\* x put behind every row whose time_avg is not smaller than its own.
InsertDesc(s, x) ==
    IF s = <<>> THEN <<x>>
    ELSE IF QuotGT(x.time_avg, Head(s).time_avg) THEN <<x>> \o s
    ELSE <<Head(s)>> \o InsertDesc(Tail(s), x)

RECURSIVE SortedByAvg(_)
\* sorted(table, key=lambda i: i['time_avg'], reverse=True): descending, rows
\* of equal key in their original order.
SortedByAvg(t) ==
    IF t = <<>> THEN <<>>
    ELSE InsertDesc(SortedByAvg(SubSeq(t, 1, Len(t) - 1)), t[Len(t)])

\* Variant of Truncate that slices without sorting.
TruncateUnsorted(t, report_size) ==
    IF Len(t) > report_size THEN SubSeq(t, 1, report_size) ELSE t

\* if len(table) > REPORT_SIZE: table = sorted(...)[:REPORT_SIZE]
Truncate(t, report_size) ==
    IF Len(t) > report_size
    THEN SubSeq(SortedByAvg(t), 1, report_size)
    ELSE t

\* The table before truncation: one row per key, in the dict's order.
FullTable(d, total_lines, total_time) ==
    [i \in 1..Len(d) |-> Metrics(d[i].url, d[i].times, total_lines, total_time)]

\* calculate_report_metrics(config_file, urls, summary_lines, requests_time)
calculate_report_metrics(cfg, d, total_lines, total_time) ==
    Truncate(FullTable(d, total_lines, total_time), cfg.REPORT_SIZE)

\* The divisions of lines 158-159 raise ZeroDivisionError.
MetricsRaises(d, total_lines, total_time) ==
    d # <<>> /\ (total_lines = 0 \/ total_time = 0)

--------------------------------------------------------------------------
\* generate_report and report_is_exist.

\* The decimal digits of n, zero-padded to width w.
RECURSIVE Digits(_, _)
Digits(n, w) == IF w = 0 THEN <<>> ELSE Append(Digits(n \div 10, w - 1), n % 10)

\* generate_report: f'report-{%Y}.{%m}.{%d}.html', as the digits of the three
\* fields (the text between them is fixed).
ReportFileName(file_date) ==
    Digits(file_date[1], 4) \o Digits(file_date[2], 2) \o Digits(file_date[3], 2)

\* Variant of ExistFileName with the month and day fields exchanged.
ExistFileNameSwapped(file_date) ==
    Digits(file_date[1], 4) \o Digits(file_date[3], 2) \o Digits(file_date[2], 2)

\* report_is_exist: the same f-string, written out a second time.
ExistFileName(file_date) ==
    Digits(file_date[1], 4) \o Digits(file_date[2], 2) \o Digits(file_date[3], 2)

\* os.path.exists(os.path.join(ROOT_DIR, config_file['REPORT_DIR'], file))
report_is_exist(dir, file_date) ==
    \E f \in dir : f.name = ExistFileName(file_date)

\* File bodies: what open(report_path, "w") leaves, what a write that fails
\* midway leaves, and tpl.safe_substitute(table_json=table).
EmptyBody == [state |-> "empty", table |-> <<>>]

PartialBody == [state |-> "partial", table |-> <<>>]

Rendered(t) == [state |-> "full", table |-> t]

\* The directory after the file `name` is created or replaced with `body`.
WriteFile(dir, name, body) ==
    {f \in dir : f.name # name} \cup {[name |-> name, body |-> body]}

\* Where an I/O error can strike in generate_report.
Faults == {"none", "open_sample", "open_report", "read_sample", "write_report"}

--------------------------------------------------------------------------
\* Inputs.

Entry(stem, token, suffix) == [stem |-> stem, token |-> token, suffix |-> suffix]

Log0630 == Entry(LogStem, <<2, 0, 1, 7, 0, 6, 3, 0>>, "")

Log0629gz == Entry(LogStem, <<2, 0, 1, 7, 0, 6, 2, 9>>, ".gz")

\* 30 February: matches the name pattern, is no calendar date.
LogBadDate == Entry(LogStem, <<2, 0, 1, 7, 0, 2, 3, 0>>, "")

\* Another program's file, with a later date.
OtherFile == Entry("error.log-", <<2, 0, 1, 7, 0, 7, 0, 1>>, "")

\* The date of this one is datetime.date.min.
LogDateMin == Entry(LogStem, <<0, 0, 0, 1, 0, 1, 0, 1>>, ".gz")

\* Seven digits, which strptime reads as 2017-07-01.
LogShort == Entry(LogStem, <<2, 0, 1, 7, 0, 7, 1>>, "")

LocatorNames == {Log0630, Log0629gz, LogBadDate, OtherFile, LogDateMin, LogShort}

PipelineNames == {Log0630, Log0629gz, LogBadDate}

Line(method, url, proto, time) ==
    [method |-> method, url |-> url, proto |-> proto, time |-> time]

MatchedLines(urlSet, timeSet) ==
    {Line("GET", u, "HTTP/1.1", t) : u \in urlSet, t \in timeSet}

UnmatchedLines ==
    {Line("DELETE", "/a", "HTTP/1.1", 100), Line("GET", "/a", "HTTP/2.0", 100)}

AggregateLines ==
    MatchedLines({"/a", "/b"}, {0, 100, 300}) \cup MatchedLines({"/c"}, {100})
    \cup UnmatchedLines

PipelineLines ==
    {Line("GET", "/a", "HTTP/1.1", 100), Line("POST", "/b", "HTTP/1.0", 300),
     Line("DELETE", "/a", "HTTP/1.1", 100)}

\* config: REPORT_SIZE and MAX_DROP as the configuration file sets them.
Configs(sizes, drops) == [REPORT_SIZE : sizes, MAX_DROP : drops]

NoErr == "none"

NoPrev == [end |-> "none", err |-> NoErr, opened |-> FALSE, wrote |-> FALSE,
           reports |-> {}]

Terminal == {"NoLogFound", "AlreadyReported", "Done", "FatalAbort"}

\* The locals of the stages after find_latest_log, before they run.
FreshRun ==
    /\ err = NoErr
    /\ gen_summary_lines = 0
    /\ gen_parsed_lines = 0
    /\ summary_lines = 0
    /\ parsed_lines = 0
    /\ urls = <<>>
    /\ requests_time = 0
    /\ dropped = 0
    /\ table = <<>>
    /\ opened = FALSE
    /\ wrote = FALSE

\* A report left by an earlier invocation, for the log of 2017-06-30.
OldReport == [name |-> ReportFileName(<<2017, 6, 30>>), body |-> Rendered(<<>>)]

\* The whole pipeline, from the first statement of main.
Init ==
    /\ dirExists \in BOOLEAN
    /\ listing \in (IF dirExists THEN DistinctSeqsUpTo(PipelineNames, MaxEntries)
                    ELSE {<<>>})
    /\ content \in SeqsUpTo(PipelineLines, MaxLines)
    /\ config_file \in Configs({1000}, {0, 5, 50})
    /\ reports \in {{}, {OldReport}}
    /\ reports0 = reports
    /\ pc = "Locating"
    /\ run = 1
    /\ prev = NoPrev
    /\ last_log_tuple = NoLog
    /\ FreshRun

\* find_latest_log alone, over a wider choice of directories.
InitLocator ==
    /\ dirExists \in BOOLEAN
    /\ listing \in (IF dirExists THEN DistinctSeqsUpTo(LocatorNames, MaxEntries)
                    ELSE {<<>>})
    /\ content = <<>>
    /\ config_file \in Configs({1000}, {5})
    /\ reports = {}
    /\ reports0 = reports
    /\ pc = "Locating"
    /\ run = 1
    /\ prev = NoPrev
    /\ last_log_tuple = NoLog
    /\ FreshRun

\* parse_log, aggregate_parse_values and calculate_report_metrics on the log
\* of 2017-06-30, over a wider choice of files and configurations.
InitAggregate ==
    /\ dirExists = TRUE
    /\ listing = <<Log0630>>
    /\ content \in SeqsUpTo(AggregateLines, MaxLines)
    /\ config_file \in Configs({1, 2}, {0, 5, 50})
    /\ reports = {}
    /\ reports0 = reports
    /\ pc = "Parsing"
    /\ run = 1
    /\ prev = NoPrev
    /\ last_log_tuple = [name |-> Log0630, date |-> <<2017, 6, 30>>]
    /\ FreshRun

--------------------------------------------------------------------------
\* Actions.

inputs == <<dirExists, listing, content, config_file>>

parseState == <<gen_summary_lines, gen_parsed_lines, summary_lines,
                parsed_lines, urls, requests_time>>

\* main, lines 194-197: last_log_tuple = find_latest_log(config_file).
MainFindLatestLog ==
    /\ pc = "Locating"
    /\ LET r == find_latest_log(dirExists, listing) IN
         /\ last_log_tuple' = r.log
         /\ err' = IF r.raised THEN "ValueError" ELSE NoErr
         /\ pc' = IF r.raised THEN "FatalAbort"
                  ELSE IF r.log = NoLog THEN "NoLogFound"
                  ELSE "CheckingExisting"
    /\ UNCHANGED <<inputs, reports, run, parseState, dropped, table, opened,
                   wrote, reports0, prev>>

\* main, lines 198-200: if report_is_exist(...): return.
MainReportIsExist ==
    /\ pc = "CheckingExisting"
    /\ pc' = IF report_is_exist(reports, last_log_tuple.date)
             THEN "AlreadyReported" ELSE "Parsing"
    /\ UNCHANGED <<inputs, reports, run, last_log_tuple, err, parseState,
                   dropped, table, opened, wrote, reports0, prev>>

\* One turn of `for line in f` in parse_log and, when the line matches and is
\* yielded, of the loop of aggregate_parse_values that receives it.
ParseLogLine ==
    /\ pc = "Parsing"
    /\ gen_summary_lines < Len(content)
    /\ opened' = TRUE
    /\ gen_summary_lines' = gen_summary_lines + 1
    /\ LET line == content[gen_summary_lines + 1] IN
         IF LineMatch(line)
         THEN /\ gen_parsed_lines' = gen_parsed_lines + 1
              /\ summary_lines' = gen_summary_lines'
              /\ parsed_lines' = gen_parsed_lines'
              /\ requests_time' = requests_time + line.time
              /\ urls' = AddTime(urls, line.url, line.time)
         ELSE UNCHANGED <<gen_parsed_lines, summary_lines, parsed_lines,
                          requests_time, urls>>
    /\ UNCHANGED <<inputs, reports, pc, run, last_log_tuple, err, dropped,
                   table, wrote, reports0, prev>>

\* aggregate_parse_values after its loop, lines 123-131: the generator is
\* exhausted; the division, the comparison with MAX_DROP, the return.
AggregateFinish ==
    /\ pc = "Parsing"
    /\ gen_summary_lines = Len(content)
    /\ opened' = TRUE
    /\ IF summary_lines = 0
       THEN /\ err' = "ZeroDivisionError"
            /\ pc' = "FatalAbort"
            /\ UNCHANGED dropped
       ELSE /\ dropped' = Round3Percent(summary_lines - parsed_lines, summary_lines)
            /\ IF GateRaises(dropped', config_file.MAX_DROP)
               THEN err' = "RuntimeError" /\ pc' = "FatalAbort"
               ELSE err' = NoErr /\ pc' = "Metrics"
    /\ UNCHANGED <<inputs, reports, run, last_log_tuple, parseState, table,
                   wrote, reports0, prev>>

\* main, line 203: metrics = calculate_report_metrics(...).
CalculateReportMetrics ==
    /\ pc = "Metrics"
    /\ IF MetricsRaises(urls, summary_lines, requests_time)
       THEN /\ err' = "ZeroDivisionError"
            /\ pc' = "FatalAbort"
            /\ UNCHANGED table
       ELSE /\ table' = calculate_report_metrics(config_file, urls,
                                                 summary_lines, requests_time)
            /\ pc' = "Rendering"
            /\ UNCHANGED err
    /\ UNCHANGED <<inputs, reports, run, last_log_tuple, parseState, dropped,
                   opened, wrote, reports0, prev>>

\* main, line 204: generate_report(config_file, metrics, last_log_tuple.date).
\* The template is opened, then the report path is opened for writing (which
\* creates or empties the file), then the template is read and the rendered
\* text written; an I/O error at any of the four ends the run.
GenerateReport ==
    /\ pc = "Rendering"
    /\ \E fault \in Faults :
         LET file == ReportFileName(last_log_tuple.date) IN
         /\ reports' =
              CASE fault \in {"open_sample", "open_report"} -> reports
                [] fault = "read_sample"  -> WriteFile(reports, file, EmptyBody)
                [] fault = "write_report" -> WriteFile(reports, file, PartialBody)
                [] fault = "none"         -> WriteFile(reports, file, Rendered(table))
         /\ wrote' = (fault \notin {"open_sample", "open_report"})
         /\ err' = IF fault = "none" THEN NoErr ELSE "OSError"
         /\ pc' = IF fault = "none" THEN "Done" ELSE "FatalAbort"
    /\ UNCHANGED <<inputs, run, last_log_tuple, parseState, dropped, table,
                   opened, reports0, prev>>

\* The program is invoked again, on the same directories and configuration.
StartRun ==
    /\ pc \in Terminal
    /\ run < MaxRuns
    /\ run' = run + 1
    /\ prev' = [end |-> pc, err |-> err, opened |-> opened, wrote |-> wrote,
                reports |-> reports]
    /\ reports0' = reports
    /\ pc' = "Locating"
    /\ last_log_tuple' = NoLog
    /\ err' = NoErr
    /\ gen_summary_lines' = 0
    /\ gen_parsed_lines' = 0
    /\ summary_lines' = 0
    /\ parsed_lines' = 0
    /\ urls' = <<>>
    /\ requests_time' = 0
    /\ dropped' = 0
    /\ table' = <<>>
    /\ opened' = FALSE
    /\ wrote' = FALSE
    /\ UNCHANGED <<inputs, reports>>

Next ==
    \/ MainFindLatestLog
    \/ MainReportIsExist
    \/ ParseLogLine
    \/ AggregateFinish
    \/ CalculateReportMetrics
    \/ GenerateReport
    \/ StartRun

Spec == Init /\ [][Next]_vars

SpecLocator == InitLocator /\ [][MainFindLatestLog]_vars

NextAggregate ==
    \/ ParseLogLine
    \/ AggregateFinish
    \/ CalculateReportMetrics

SpecAggregate == InitAggregate /\ [][NextAggregate]_vars

--------------------------------------------------------------------------
\* What the file and the directory hold, read off the inputs themselves.

\* The indices of the entries whose name matches the log pattern and whose
\* date token is a calendar date.
ValidEntries == {i \in 1..Len(listing) :
                    RegexSearch(listing[i]) /\ StrpTime(listing[i].token).ok}

\* The indices of the entries whose name matches but whose token is no date.
BadDateEntries == {i \in 1..Len(listing) :
                    RegexSearch(listing[i]) /\ ~StrpTime(listing[i].token).ok}

EntryDate(i) == StrpTime(listing[i].token).date

\* The result names a valid entry of the newest date, with that date.
ReturnsNewestValid ==
    /\ pc = "CheckingExisting"
    /\ err = NoErr
    /\ \E i \in ValidEntries :
         /\ last_log_tuple = [name |-> listing[i], date |-> EntryDate(i)]
         /\ \A j \in ValidEntries : ~DateGT(EntryDate(j), EntryDate(i))

\* The 'no log found' result: None returned, nothing raised.
ReturnsNoLog == pc = "NoLogFound" /\ err = NoErr /\ last_log_tuple = NoLog

RECURSIVE TimesOf(_, _)
\* The request times of the matched lines of file f that carry url u.
TimesOf(f, u) ==
    IF f = <<>> THEN <<>>
    ELSE IF LineMatch(Head(f)) /\ Head(f).url = u
         THEN <<Head(f).time>> \o TimesOf(Tail(f), u)
         ELSE TimesOf(Tail(f), u)

MatchedCount(f) == Cardinality({i \in 1..Len(f) : LineMatch(f[i])})

RECURSIVE MatchedTime(_)
MatchedTime(f) ==
    IF f = <<>> THEN 0
    ELSE (IF LineMatch(Head(f)) THEN Head(f).time ELSE 0) + MatchedTime(Tail(f))

UrlsOf(f) == {f[i].url : i \in {k \in 1..Len(f) : LineMatch(f[k])}}

\* The drop ratio of the file: unmatched lines over all lines.
FileDropRatio == Round3Percent(Len(content) - MatchedCount(content), Len(content))

\* Position of the row of url u in table t.
RowIndex(t, u) == CHOOSE i \in 1..Len(t) : t[i].url = u

TableUrls(t) == {t[i].url : i \in 1..Len(t)}

--------------------------------------------------------------------------
\* C1: idempotence of the pipeline. Once a run of main has ended in Done
\* (log found, no report yet, gate passed, report written), the next run on
\* the same directories and configuration takes the 'already reported'
\* return: it raises nothing, does not open the log, does not open the
\* report path, and leaves the report directory as the first run left it; so
\* the report is written once by the two runs.
C1_SecondRunIsNoOp ==
    prev.end = "Done" =>
        /\ pc \in {"Locating", "CheckingExisting", "AlreadyReported"}
        /\ err = NoErr
        /\ ~opened
        /\ gen_summary_lines = 0
        /\ prev.wrote /\ ~wrote
        /\ reports = prev.reports

\* The second run has ended, after a first run that wrote the report.
C1_Witness ==
    /\ run = 2
    /\ prev.end = "Done"
    /\ pc = "AlreadyReported"
    /\ \E f \in reports : f.body.state = "full" /\ f.body.table # <<>>

\* C5: a report file is written only in a run that found a log, found no
\* report for its date, and got past the comparison of dropped with MAX_DROP.
\* A run whose gate raises ends in FatalAbort with no metrics table and no
\* change to the report directory; the 'no log found' and 'already reported'
\* returns come before the log is opened and change nothing.
C5_ReportOnlyAfterGate ==
    /\ (wrote \/ reports # reports0) =>
          /\ last_log_tuple # NoLog
          /\ ~\E f \in reports0 : f.name = ReportFileName(last_log_tuple.date)
          /\ opened
          /\ summary_lines > 0
          /\ dropped <= config_file.MAX_DROP * 1000
          /\ pc \in {"Done", "FatalAbort"}
    /\ pc \in {"Metrics", "Rendering", "Done"} =>
          dropped <= config_file.MAX_DROP * 1000
    /\ (pc = "FatalAbort" /\ err = "RuntimeError") =>
          /\ dropped > config_file.MAX_DROP * 1000
          /\ table = <<>>
          /\ ~wrote
          /\ reports = reports0
    /\ pc \in {"NoLogFound", "AlreadyReported"} =>
          /\ ~opened
          /\ gen_summary_lines = 0
          /\ table = <<>>
          /\ ~wrote
          /\ reports = reports0

\* A report was written by a run whose file had unmatched lines within the
\* allowed ratio.
C5_Witness ==
    /\ pc = "Done"
    /\ wrote
    /\ reports # reports0
    /\ dropped > 0

\* C6: calculate_report_metrics returns min(number of urls, REPORT_SIZE)
\* rows, each the row of a distinct url. When there are more urls than
\* REPORT_SIZE, no dropped row has a greater time_avg than a kept row, a
\* dropped row that ties with a kept row comes after it in the aggregate's
\* order, and the kept rows stand in descending time_avg, ties in the
\* aggregate's order.
C6_TruncatesToTopByAvg ==
    pc = "Rendering" =>
      LET full == FullTable(urls, summary_lines, requests_time)
          n    == config_file.REPORT_SIZE
          kept == TableUrls(table)
      IN  /\ Len(table) = Min(Len(urls), n)
          /\ \A i \in 1..Len(table) : table[i] \in Range(full)
          /\ Cardinality(kept) = Len(table)
          /\ Len(urls) <= n => table = full
          /\ Len(urls) > n =>
               /\ \A k \in 1..Len(full), r \in 1..Len(full) :
                    (full[k].url \in kept /\ full[r].url \notin kept) =>
                       /\ ~QuotGT(full[r].time_avg, full[k].time_avg)
                       /\ QuotEQ(full[r].time_avg, full[k].time_avg) => k < r
               /\ \A i, j \in 1..Len(table) :
                    i < j =>
                       /\ ~QuotGT(table[j].time_avg, table[i].time_avg)
                       /\ QuotEQ(table[j].time_avg, table[i].time_avg) =>
                            RowIndex(full, table[i].url) < RowIndex(full, table[j].url)

\* Three urls cut below three rows: the first url of the aggregate is
\* dropped for a later one, and a dropped row ties with a kept row.
C6_Witness ==
    /\ pc = "Rendering"
    /\ Len(urls) = 3
    /\ Len(table) = config_file.REPORT_SIZE
    /\ LET full == FullTable(urls, summary_lines, requests_time) IN
         /\ full[1].url \notin TableUrls(table)
         /\ \E k, r \in 1..Len(full) :
               /\ full[k].url \in TableUrls(table)
               /\ full[r].url \notin TableUrls(table)
               /\ QuotEQ(full[k].time_avg, full[r].time_avg)

\* C2: find_latest_log returns the entry of the greatest date among the
\* entries that match the pattern with a valid date, paired with that date;
\* if the directory does not exist or holds no such entry it returns the
\* 'no log found' result and raises nothing.
C2_ReturnsNewestValidOrNone ==
    pc # "Locating" =>
        IF dirExists /\ ValidEntries # {}
        THEN ReturnsNewestValid
        ELSE ReturnsNoLog

\* C9: an entry that matches the pattern but whose date token is no calendar
\* date is left out and is not fatal: find_latest_log raises nothing and
\* returns the newest of the valid entries, or 'no log found' without any.
C9_BadDateIsSkipped ==
    (pc # "Locating" /\ BadDateEntries # {}) =>
        /\ err = NoErr
        /\ pc # "FatalAbort"
        /\ \/ ReturnsNewestValid
           \/ ValidEntries = {} /\ ReturnsNoLog

\* C3: the total line count that aggregate_parse_values holds once the file
\* is drained, which it uses in the drop ratio and returns, is the number of
\* lines of the file: unmatched lines count, wherever they stand. (Stated for
\* files with a matched line; a total of 0 is the case of C8.)
C3_TotalIsLineCount ==
    (pc # "Parsing" /\ MatchedCount(content) > 0) => summary_lines = Len(content)

\* C4: once the file is consumed, aggregate_parse_values fails with the
\* parse-quality error exactly when the drop ratio of the file, unmatched
\* lines over all lines in percent rounded to 3 decimals, is greater than
\* MAX_DROP; a ratio equal to MAX_DROP passes. (Stated for files with a
\* matched line; a total of 0 is the case of C8.)
C4_GateIffFileRatioExceeds ==
    (pc # "Parsing" /\ MatchedCount(content) > 0) =>
        ((pc = "FatalAbort" /\ err = "RuntimeError")
            <=> FileDropRatio > config_file.MAX_DROP * 1000)

\* C7: for every url of the file the table holds exactly one row, with count
\* the number of times recorded for the url, time_sum their sum, time_max
\* their maximum, time_med their median, count_perc the count over the
\* number of lines of the file (matched or not) and time_perc the sum over
\* the request time of all matched lines. (Stated for tables that the report
\* size does not cut.)
C7_RowsMatchFile ==
    (pc = "Rendering" /\ Len(urls) <= config_file.REPORT_SIZE) =>
        /\ TableUrls(table) = UrlsOf(content)
        /\ Len(table) = Cardinality(UrlsOf(content))
        /\ \A i \in 1..Len(table) :
             LET times == TimesOf(content, table[i].url) IN
             /\ table[i].count = Len(times)
             /\ table[i].time_sum = SumSeq(times)
             /\ table[i].time_max = MaxSeq(times)
             /\ table[i].time_med = Median(times)
             /\ table[i].count_perc = Round3Percent(Len(times), Len(content))
             /\ table[i].time_perc = Round3Percent(SumSeq(times), MatchedTime(content))

\* C8: when the aggregator ends with a total line count of 0, the run does
\* not end in a division by zero.
C8_NoDivisionByZero ==
    (pc # "Parsing" /\ summary_lines = 0) => err # "ZeroDivisionError"

\* C10: when generate_report fails with an I/O error, no file is left at the
\* report path that report_is_exist takes for a finished report, and the
\* next run on the same log is not cut short as 'already reported'.
C10_NoReportLeftOnIOError ==
    /\ (pc = "FatalAbort" /\ err = "OSError") =>
          ~\E f \in reports : f.name = ReportFileName(last_log_tuple.date)
    /\ prev.err = "OSError" => pc # "AlreadyReported"

==========================================================================
